---------------------------- MODULE Spec2Model ----------------------------
(***************************************************************************)
(* The shielded state engine of darkfid (src/bin/darkfid-old.rs):          *)
(* State (commitment tree, merkle root history, nullifier set, wallet),   *)
(* State::apply, State::try_decrypt_note and the futures_broker loop that  *)
(* multiplexes confirmed slabs, deposit / withdraw requests and transfers. *)
(*                                                                         *)
(* The merkle tree, the incremental witness, the note cipher, the wallet   *)
(* store and the transaction validator live in the drk library, outside    *)
(* the files modelled here; they are modelled from their documented        *)
(* behaviour.  A hash is modelled as the pair of its two children, so two  *)
(* roots are equal exactly when they commit to the same leaves.            *)
(***************************************************************************)
EXTENDS Naturals, Sequences, FiniteSets

VARIABLES
    tree,              \* State.tree: the ordered leaves of the CommitmentTree
    merkle_roots,      \* State.merkle_roots: keys of the MerkleRoots column
    nullifiers,        \* State.nullifiers: keys of the Nullifiers column
    witnesses,         \* wallet.witnesses: one IncrementalWitness per owned coin
    own_coins,         \* wallet own-coin records (coin, note, secret), parallel to witnesses
    lock,              \* holder of the wallet.witnesses mutex seen from the broker
    pc,                \* where the broker task stands
    task,              \* outcome of the broker task
    update,            \* the StateUpdate being applied
    ni,                \* index of the next nullifier of update
    ci,                \* index of the next (coin, enc_note) pair of update
    double_spend,      \* history: update held a nullifier already present when apply was called
    tree_at_call,      \* history: the leaves of the tree when apply was called
    published,         \* number of events delivered so far on the four channels
    gateway_slabs_sub, \* channel of confirmed slabs
    deposit_req,       \* channel of deposit requests
    deposit_rep,       \* channel of deposit replies
    withdraw_req,      \* channel of withdraw requests
    withdraw_rep,      \* channel of withdraw replies
    publish_tx_recv,   \* channel of transfer requests
    cashier_req,       \* argument of the outstanding call to the cashier service
    cashier_rsp,       \* answer of the cashier service to the outstanding call
    put_slabs,         \* number of slabs submitted through client.put_slab
    cashier,           \* wallet store: the registered cashier public keys
    secrets,           \* wallet store: the secret keys held, in the store's order
    call,              \* the last call of a predicate or of try_decrypt_note and its result
    requested          \* history: the deposit and withdraw requests delivered, in order

engine == <<tree, merkle_roots, nullifiers, witnesses, own_coins>>
applying == <<update, ni, ci, double_spend, tree_at_call>>
channels == <<gateway_slabs_sub, deposit_req, deposit_rep, withdraw_req,
              withdraw_rep, publish_tx_recv, cashier_req, cashier_rsp, put_slabs>>
wallet == <<cashier, secrets, call>>
vars == <<tree, merkle_roots, nullifiers, witnesses, own_coins, lock, pc, task,
          update, ni, ci, double_spend, tree_at_call, published, gateway_slabs_sub,
          deposit_req, deposit_rep, withdraw_req, withdraw_rep,
          publish_tx_recv, cashier_req, cashier_rsp, put_slabs, cashier,
          secrets, call, requested>>

---------------------------------------------------------------------------
(* Bounds *)

\* depth of the commitment tree: it holds 2^TreeDepth leaves
TreeDepth == 2

\* events delivered in a run: slabs, deposit, withdraw and transfer requests
MaxEvents == 3

\* secret keys a wallet store holds at most
MaxSecrets == 2

---------------------------------------------------------------------------
(* Values *)

Nullifier == {"n1", "n2"}

Coin == {"c1", "c2"}

\* the wallet's own secret key (wallet.get_private)
WalletSecret == "sk"

\* an encrypted note: the key it was encrypted to and its plaintext
NoteOf(coin) ==
    IF coin = "c1" THEN [to |-> "sk", note |-> [value |-> 1]]
                   ELSE [to |-> "other", note |-> [value |-> 1]]

\* secret keys a wallet store can hold
Secret == {"sk", "sk2", "other"}

\* public keys of cashiers
CashierKey == {"ck1", "ck2", "ck3"}

\* no predicate has been called
NoCall == [fn |-> "none"]

\* the contents of the keys table: distinct secret keys in the store's order
SecretSeqs ==
    {held \in UNION {[1..n -> Secret] : n \in 0..MaxSecrets} :
        \A i, j \in 1..Len(held) : held[i] = held[j] => i = j}

\* encrypted notes: the key each was encrypted to and its plaintext
EncryptedNotes == {[to |-> s, note |-> [value |-> v]] : s \in Secret, v \in 1..2}

NullifierSeqs == {<<>>, <<"n1">>, <<"n1", "n2">>}

CoinSeqs == {<<>>, <<"c1">>, <<"c2", "c1">>, <<"c1", "c2", "c1">>}

NotesOf(coins) == [i \in 1..Len(coins) |-> NoteOf(coins[i])]

\* StateUpdate: nullifiers, coins and the parallel list of encrypted notes
Updates ==
    {[nullifiers |-> ns, coins |-> cs, enc_notes |-> NotesOf(cs)] :
        ns \in NullifierSeqs, cs \in CoinSeqs}

NoUpdate == [nullifiers |-> <<>>, coins |-> <<>>, enc_notes |-> <<>>]

Range(s) == {s[i] : i \in 1..Len(s)}

Min(a, b) == IF a <= b THEN a ELSE b

---------------------------------------------------------------------------
(* Merkle tree and incremental witness *)

RECURSIVE Pow2(_)
Pow2(n) == IF n = 0 THEN 1 ELSE 2 * Pow2(n - 1)

Capacity == Pow2(TreeDepth)

EmptyLeaf == "empty"

\* MerkleNode::from_coin
FromCoin(coin) == coin

\* the combining function of two children
Combine(l, r) == <<l, r>>

\* root of the empty subtree of depth d
RECURSIVE EmptyNode(_)
EmptyNode(d) == IF d = 0 THEN EmptyLeaf ELSE Combine(EmptyNode(d - 1), EmptyNode(d - 1))

\* root of the subtree of depth d whose first leaf is leaf lo (0-indexed) of
\* leaves; the leaves that do not exist yet are empty
RECURSIVE SubtreeRoot(_, _, _)
SubtreeRoot(leaves, lo, d) ==
    IF lo >= Len(leaves) THEN EmptyNode(d)
    ELSE IF d = 0 THEN leaves[lo + 1]
    ELSE Combine(SubtreeRoot(leaves, lo, d - 1),
                 SubtreeRoot(leaves, lo + Pow2(d - 1), d - 1))

\* CommitmentTree::root
TreeRoot(t) == SubtreeRoot(t, 0, TreeDepth)

\* CommitmentTree::empty().root()
EmptyRoot == TreeRoot(<<>>)

\* IncrementalWitness::from_tree: bound to the last leaf of the tree
WitnessFromTree(t) == [tree |-> t, filled |-> <<>>]

\* IncrementalWitness::append
WitnessAppend(w, node) == [w EXCEPT !.filled = Append(@, node)]

\* 0-indexed leaf position a witness is bound to
WitnessPosition(w) == Len(w.tree) - 1

\* IncrementalWitness::path: the sibling hash at every level, leaf level first
WitnessPath(w) ==
    LET known == w.tree \o w.filled
        pos == WitnessPosition(w)
    IN  [l \in 1..TreeDepth |->
            LET width == Pow2(l - 1)
                idx == pos \div width
                sib == IF idx % 2 = 0 THEN idx + 1 ELSE idx - 1
            IN  SubtreeRoot(known, sib * width, l - 1)]

\* the root an authentication path derives for a leaf at a position
RECURSIVE RootFromPath(_, _, _, _)
RootFromPath(node, pos, path, l) ==
    IF l > Len(path) THEN node
    ELSE RootFromPath(IF pos % 2 = 0 THEN Combine(node, path[l])
                                     ELSE Combine(path[l], node),
                      pos \div 2, path, l + 1)

\* IncrementalWitness::root
WitnessRoot(w) ==
    RootFromPath(w.tree[Len(w.tree)], WitnessPosition(w), WitnessPath(w), 1)

---------------------------------------------------------------------------
(* State: predicates and the pieces of apply *)

is_valid_merkle(merkle_root) == merkle_root \in merkle_roots

\* the lookup is made with a key that is never stored
nullifier_exists_never(nullifier) == FALSE

\* self.nullifiers.key_exist(nullifier.repr)
nullifier_exists(nullifier) == nullifier \in nullifiers

\* SELECT key_public FROM cashier WHERE key_public IN (SELECT key_public):
\* every row's key is in the one-row set made of itself, so the query returns
\* every row of the table, and exists() tells whether there is one; _public
\* is not used
is_valid_cashier_public_key(public, registered) == registered # {}

\* a put that replaces the column's content instead of adding a key
NullifiersPutOverwrites(col, nullifier) == {nullifier}

\* self.nullifiers.put(nullifier, vec![])
NullifiersPut(col, nullifier) == col \cup {nullifier}

\* the root recorded is the one the tree had before the append
MerkleRootsPutStale(col, t) == col \cup {TreeRoot(SubSeq(t, 1, Len(t) - 1))}

\* only the current root is kept
MerkleRootsPutOverwrites(col, t) == {TreeRoot(t)}

\* self.merkle_roots.put(self.tree.root(), vec![])
MerkleRootsPut(col, t) == col \cup {TreeRoot(t)}

\* the last witness of the collection is left behind
AdvanceWitnessesButLast(ws, node) ==
    [i \in 1..Len(ws) |-> IF i < Len(ws) THEN WitnessAppend(ws[i], node) ELSE ws[i]]

\* every witness is given the new leaf twice
AdvanceWitnessesTwice(ws, node) ==
    [i \in 1..Len(ws) |-> WitnessAppend(WitnessAppend(ws[i], node), node)]

\* for witness in self.wallet.witnesses.lock().await.iter_mut() { witness.append(node) }
AdvanceWitnesses(ws, node) == [i \in 1..Len(ws) |-> WitnessAppend(ws[i], node)]

\* the pairs of the update taken from the last to the first (.rev())
PairsReversed(u) ==
    LET n == Min(Len(u.coins), Len(u.enc_notes))
    IN  [i \in 1..n |-> [coin |-> u.coins[n + 1 - i], enc_note |-> u.enc_notes[n + 1 - i]]]

\* update.coins.into_iter().zip(update.enc_notes.into_iter())
Pairs(u) ==
    [i \in 1..Min(Len(u.coins), Len(u.enc_notes)) |->
        [coin |-> u.coins[i], enc_note |-> u.enc_notes[i]]]

\* EncryptedNote::decrypt
DecryptNote(ciphertext, secret) ==
    IF ciphertext.to = secret THEN [ok |-> TRUE, note |-> ciphertext.note]
                              ELSE [ok |-> FALSE]

\* wallet.get_private(): the read fails, or it gives one secret key of the store
get_private(held) ==
    {[ok |-> FALSE]} \cup {[ok |-> TRUE, secret |-> held[i]] : i \in 1..Len(held)}

\* the result of decrypt is not matched: the note is returned in any case
try_decrypt_note_unchecked(ciphertext, private) ==
    IF ~private.ok THEN [some |-> FALSE]
    ELSE [some |-> TRUE, note |-> ciphertext.note, secret |-> private.secret]

\* State::try_decrypt_note; private: what wallet.get_private() returned
try_decrypt_note(ciphertext, private) ==
    IF ~private.ok THEN [some |-> FALSE]
    ELSE IF DecryptNote(ciphertext, private.secret).ok
         THEN [some |-> TRUE, note |-> DecryptNote(ciphertext, private.secret).note,
               secret |-> private.secret]
         ELSE [some |-> FALSE]

\* where apply goes once the nullifier at index i has been stored
AfterNullifier(u, i) ==
    IF i < Len(u.nullifiers) THEN "nullifiers"
    ELSE IF Len(Pairs(u)) > 0 THEN "append" ELSE "select"

\* apply returns from inside the loop, after the first pair
AfterCoinReturnsEarly(u, i) == "select"

\* where apply goes once the pair at index i has been processed
AfterCoin(u, i) == IF i < Len(Pairs(u)) THEN "append" ELSE "select"

\* a failed nullifier put is swallowed and apply goes on with the coins
NullifierPutErrIgnored ==
    [task |-> "running", pc |-> IF Len(Pairs(update)) > 0 THEN "append" ELSE "select"]

\* the outcome of a failed nullifier put: the ? operator returns the error
NullifierPutErr == [task |-> "err_store", pc |-> "nullifiers"]

Running == task = "running"

---------------------------------------------------------------------------
(* start(): the state the process creates *)

\* the two columns of a database that is created by this start
EmptyStores ==
    /\ merkle_roots = {}
    /\ nullifiers = {}

\* the State, the channels and the broker task as start() makes them
Started ==
    /\ tree = <<>>
    /\ witnesses = <<>>
    /\ own_coins = <<>>
    /\ lock = "free"
    /\ pc = "select"
    /\ task = "running"
    /\ update = NoUpdate
    /\ ni = 1
    /\ ci = 1
    /\ double_spend = FALSE
    /\ tree_at_call = <<>>
    /\ published = 0
    /\ gateway_slabs_sub = <<>>
    /\ deposit_req = <<>>
    /\ deposit_rep = <<>>
    /\ withdraw_req = <<>>
    /\ withdraw_rep = <<>>
    /\ publish_tx_recv = <<>>
    /\ cashier_req = "none"
    /\ cashier_rsp = "none"
    /\ put_slabs = 0
    /\ call = NoCall
    /\ requested = [deposit |-> <<>>, withdraw |-> <<>>]

Fresh == EmptyStores /\ Started

\* a wallet store with one secret key and one registered cashier
Init ==
    /\ Fresh
    /\ cashier = {"ck1"}
    /\ secrets = <<WalletSecret>>

---------------------------------------------------------------------------
(* State::apply, one step per fallible operation or await *)

\* entry of apply(update)
StartApply(u) ==
    /\ update' = u
    /\ ni' = 1
    /\ ci' = 1
    /\ double_spend' = (\E n \in Range(u.nullifiers) : nullifier_exists(n))
    /\ tree_at_call' = tree
    /\ pc' = IF Len(u.nullifiers) > 0 THEN "nullifiers" ELSE AfterNullifier(u, 0)

\* self.nullifiers.put(nullifier, ...)?
PutNullifier ==
    /\ Running /\ pc = "nullifiers"
    /\ \E ok \in BOOLEAN :
        IF ok
        THEN /\ nullifiers' = NullifiersPut(nullifiers, update.nullifiers[ni])
             /\ ni' = ni + 1
             /\ pc' = AfterNullifier(update, ni)
             /\ UNCHANGED task
        ELSE /\ task' = NullifierPutErr.task
             /\ pc' = NullifierPutErr.pc
             /\ UNCHANGED <<nullifiers, ni>>
    /\ UNCHANGED <<tree, merkle_roots, witnesses, own_coins, lock, update, ci,
                   double_spend, tree_at_call, published, channels>>
    /\ UNCHANGED <<wallet, requested>>

\* self.tree.append(node).expect("Append to merkle tree")
AppendCoin ==
    /\ Running /\ pc = "append"
    /\ IF Len(tree) >= Capacity
       THEN /\ task' = "panic"
            /\ UNCHANGED <<tree, pc>>
       ELSE /\ tree' = Append(tree, FromCoin(Pairs(update)[ci].coin))
            /\ pc' = "root"
            /\ UNCHANGED task
    /\ UNCHANGED <<merkle_roots, nullifiers, witnesses, own_coins, lock,
                   applying, published, channels>>
    /\ UNCHANGED <<wallet, requested>>

\* a failed root put is swallowed and apply goes on with the witnesses
RootPutErrSkipped == [task |-> "running", pc |-> "lock"]

\* the outcome of a failed root put: the ? operator returns the error
RootPutErr == [task |-> "err_store", pc |-> "root"]

\* self.merkle_roots.put(self.tree.root(), ...)?
PutRoot ==
    /\ Running /\ pc = "root"
    /\ \E ok \in BOOLEAN :
        IF ok
        THEN /\ merkle_roots' = MerkleRootsPut(merkle_roots, tree)
             /\ pc' = "lock"
             /\ UNCHANGED task
        ELSE /\ task' = RootPutErr.task
             /\ pc' = RootPutErr.pc
             /\ UNCHANGED merkle_roots
    /\ UNCHANGED <<tree, nullifiers, witnesses, own_coins, lock, applying,
                   published, channels>>
    /\ UNCHANGED <<wallet, requested>>

\* self.wallet.witnesses.lock().await finds the mutex taken: the task suspends
AwaitLock ==
    /\ Running /\ pc = "lock" /\ lock # "free"
    /\ pc' = "lock_pending"
    /\ UNCHANGED <<engine, lock, task, applying, published, channels>>
    /\ UNCHANGED <<wallet, requested>>

\* the mutex is free: lock().await resolves and the broker holds the guard
AcquireLock ==
    /\ Running /\ pc \in {"lock", "lock_pending"} /\ lock = "free"
    /\ lock' = "broker"
    /\ pc' = "locked"
    /\ UNCHANGED <<engine, task, applying, published, channels>>
    /\ UNCHANGED <<wallet, requested>>

\* the guard is a temporary of the for statement: it is dropped once the loop
\* over the witnesses is over, before try_decrypt_note is called
GuardKept == "broker"
GuardDropped == "free"

\* every witness is advanced under the guard, which is then dropped
\* (a witness fills up no sooner than the tree, whose append panics first)
LockWitnesses ==
    /\ Running /\ pc = "locked"
    /\ witnesses' = AdvanceWitnesses(witnesses, FromCoin(Pairs(update)[ci].coin))
    /\ lock' = GuardDropped
    /\ pc' = "decrypt"
    /\ UNCHANGED <<tree, merkle_roots, nullifiers, own_coins, task,
                   applying, published, channels>>
    /\ UNCHANGED <<wallet, requested>>

\* a note that does not decrypt makes apply return an error
NoteSkippedIsError(u, i) == [task |-> "err_decrypt", ci |-> i, pc |-> "decrypt"]

\* try_decrypt_note gave None: the if let has no else, the loop goes on
NoteSkipped(u, i) == [task |-> "running", ci |-> i + 1, pc |-> AfterCoin(u, i)]

\* try_decrypt_note, IncrementalWitness::from_tree and wallet.put_own_coins(...)?
DecryptCoin ==
    /\ Running /\ pc = "decrypt"
    /\ \E private \in get_private(secrets), stored \in BOOLEAN :
        LET pair == Pairs(update)[ci]
            got == try_decrypt_note(pair.enc_note, private)
        IN  IF ~got.some
            THEN /\ ci' = NoteSkipped(update, ci).ci
                 /\ pc' = NoteSkipped(update, ci).pc
                 /\ task' = NoteSkipped(update, ci).task
                 /\ UNCHANGED <<witnesses, own_coins>>
            ELSE IF stored
            THEN /\ witnesses' = Append(witnesses, WitnessFromTree(tree))
                 /\ own_coins' = Append(own_coins,
                        [coin |-> pair.coin, note |-> got.note, secret |-> got.secret])
                 /\ ci' = ci + 1
                 /\ pc' = AfterCoin(update, ci)
                 /\ UNCHANGED task
            ELSE /\ task' = "err_store"
                 /\ UNCHANGED <<witnesses, own_coins, ci, pc>>
    /\ UNCHANGED <<tree, merkle_roots, nullifiers, lock, update, ni,
                   double_spend, tree_at_call, published, channels>>
    /\ UNCHANGED <<wallet, requested>>

Apply ==
    \/ PutNullifier \/ AppendCoin \/ PutRoot
    \/ AwaitLock \/ AcquireLock \/ LockWitnesses \/ DecryptCoin

---------------------------------------------------------------------------
(* Another task of the process taking the wallet.witnesses mutex *)

ReaderLock ==
    /\ lock = "free"
    /\ lock' = "reader"
    /\ UNCHANGED <<engine, pc, task, applying, published, channels>>
    /\ UNCHANGED <<wallet, requested>>

ReaderUnlock ==
    /\ lock = "reader"
    /\ lock' = "free"
    /\ UNCHANGED <<engine, pc, task, applying, published, channels>>
    /\ UNCHANGED <<wallet, requested>>

---------------------------------------------------------------------------
(* The engine driven directly: any sequence of apply calls *)

CallApply ==
    /\ Running /\ pc = "select" /\ published < MaxEvents
    /\ \E u \in Updates : StartApply(u)
    /\ published' = published + 1
    /\ UNCHANGED <<engine, lock, task, channels>>
    /\ UNCHANGED <<wallet, requested>>

NextApply == CallApply \/ Apply \/ ReaderLock \/ ReaderUnlock

ApplySpec == Init /\ [][NextApply]_vars

---------------------------------------------------------------------------
(* The process stopped between two apply calls and started again on the    *)
(* same database and the same wallet store                                 *)

\* the wallet store keeps the owned-coin records and their witnesses
PersistedWallet ==
    /\ witnesses' = witnesses
    /\ own_coins' = own_coins

\* start(): the columns are opened on the database as it is, the tree is
\* CommitmentTree::empty(); the channels are made anew (they are empty here)
Restart ==
    /\ pc = "select" /\ lock = "free"
    /\ tree' = <<>>
    /\ UNCHANGED <<merkle_roots, nullifiers>>
    /\ PersistedWallet
    /\ task' = "running"
    /\ pc' = "select"
    /\ update' = NoUpdate
    /\ ni' = 1
    /\ ci' = 1
    /\ double_spend' = FALSE
    /\ tree_at_call' = <<>>
    /\ UNCHANGED <<lock, published, channels, wallet, requested>>

NextRestart == NextApply \/ Restart

RestartSpec == Init /\ [][NextRestart]_vars

---------------------------------------------------------------------------
(* The predicates and try_decrypt_note called on any wallet store *)

\* merkle roots a database can hold when the process starts on it
StoredRoots == {EmptyRoot, TreeRoot(<<FromCoin("c1")>>)}

\* a start on a database with any stored roots and nullifiers and a wallet
\* store with any registered cashiers and any secret keys
WalletInit ==
    /\ Started
    /\ merkle_roots \in SUBSET StoredRoots
    /\ nullifiers \in SUBSET Nullifier
    /\ cashier \in SUBSET CashierKey
    /\ secrets \in SecretSeqs

\* a failed read of the store answers that the value is absent
unwrap_or_false(read, value) ==
    [outcome |-> "returned", result |-> read /\ value]

\* Result::expect on the read of the store: the value, or a panic
expect(read, value) ==
    IF read THEN [outcome |-> "returned", result |-> value]
            ELSE [outcome |-> "panic"]

\* the record of a call of a predicate; opened: the store could be read
Called(fn, arg, opened, ret) ==
    IF ret.outcome = "returned"
    THEN [fn |-> fn, arg |-> arg, opened |-> opened, outcome |-> ret.outcome,
          result |-> ret.result]
    ELSE [fn |-> fn, arg |-> arg, opened |-> opened, outcome |-> ret.outcome]

\* state.is_valid_cashier_public_key(public)
CallIsValidCashier ==
    /\ \E public \in CashierKey, opened \in BOOLEAN :
        call' = Called("is_valid_cashier_public_key", public, opened,
                       expect(opened, is_valid_cashier_public_key(public, cashier)))
    /\ UNCHANGED <<engine, lock, pc, task, applying, published, channels,
                   cashier, secrets, requested>>

\* state.is_valid_merkle(merkle_root)
CallIsValidMerkle ==
    /\ \E merkle_root \in StoredRoots, opened \in BOOLEAN :
        call' = Called("is_valid_merkle", merkle_root, opened,
                       expect(opened, is_valid_merkle(merkle_root)))
    /\ UNCHANGED <<engine, lock, pc, task, applying, published, channels,
                   cashier, secrets, requested>>

\* state.nullifier_exists(nullifier)
CallNullifierExists ==
    /\ \E nullifier \in Nullifier, opened \in BOOLEAN :
        call' = Called("nullifier_exists", nullifier, opened,
                       expect(opened, nullifier_exists(nullifier)))
    /\ UNCHANGED <<engine, lock, pc, task, applying, published, channels,
                   cashier, secrets, requested>>

\* state.try_decrypt_note(ciphertext)
CallTryDecryptNote ==
    /\ \E ciphertext \in EncryptedNotes, private \in get_private(secrets) :
        call' = [fn |-> "try_decrypt_note", arg |-> ciphertext,
                 outcome |-> "returned", private |-> private,
                 result |-> try_decrypt_note(ciphertext, private)]
    /\ UNCHANGED <<engine, lock, pc, task, applying, published, channels,
                   cashier, secrets, requested>>

WalletNext ==
    \/ CallIsValidCashier \/ CallIsValidMerkle \/ CallNullifierExists
    \/ CallTryDecryptNote

WalletSpec == WalletInit /\ [][WalletNext]_vars

---------------------------------------------------------------------------
(* futures_broker: the select loop and its four arms *)

\* a slab whose payload does not decode to a transaction
BadSlab == [decodes |-> FALSE, valid |-> FALSE, update |-> NoUpdate]

\* a transaction whose proofs do not verify
InvalidTx ==
    [decodes |-> TRUE, valid |-> FALSE,
     update |-> [nullifiers |-> <<"n2">>, coins |-> <<"c1">>,
                 enc_notes |-> NotesOf(<<"c1">>)]]

\* the updates carried by the transactions the gateway delivers
SlabUpdates ==
    {[nullifiers |-> <<>>, coins |-> <<"c1">>, enc_notes |-> NotesOf(<<"c1">>)],
     [nullifiers |-> <<"n1">>, coins |-> <<"c2", "c1">>,
      enc_notes |-> NotesOf(<<"c2", "c1">>)],
     [nullifiers |-> <<"n1", "n2">>, coins |-> <<"c1", "c2", "c1">>,
      enc_notes |-> NotesOf(<<"c1", "c2", "c1">>)],
     [nullifiers |-> <<"n2">>, coins |-> <<>>, enc_notes |-> <<>>]}

Slabs ==
    {BadSlab, InvalidTx} \cup
    {[decodes |-> TRUE, valid |-> TRUE, update |-> u] : u \in SlabUpdates}

TransferParams ==
    {[key_ok |-> FALSE, amount |-> 1], [key_ok |-> TRUE, amount |-> 1],
     [key_ok |-> TRUE, amount |-> 2]}

\* the public keys deposit addresses are asked for
DepositKey == {"pk1", "pk2"}

\* the addresses withdrawals are asked to
WithdrawAddr == {"btc1", "btc2"}

\* the address the cashier service binds to the key or address it is given
CashierAddress(arg) ==
    CASE arg = "pk1" -> "addr1" [] arg = "pk2" -> "addr2"
      [] arg = "btc1" -> "drk1" [] OTHER -> "drk2"

\* the newest message is taken instead of the oldest
recv_newest(channel) ==
    [msg |-> channel[Len(channel)], rest |-> SubSeq(channel, 1, Len(channel) - 1)]

\* channel.recv() in a select arm: the oldest message, removed from the channel
recv(channel) == [msg |-> Head(channel), rest |-> Tail(channel)]

\* tx::Transaction::decode(&slab.get_payload()[..])
DecodeOk(slab) == slab.decodes

\* state_transition(state, tx): the proofs verify and no nullifier is spent already
state_transition(tx) ==
    IF tx.valid /\ \A n \in Range(tx.update.nullifiers) : ~nullifier_exists(n)
    THEN [ok |-> TRUE, update |-> tx.update]
    ELSE [ok |-> FALSE]

RECURSIVE SumValues(_)
SumValues(coins) ==
    IF coins = <<>> THEN 0 ELSE coins[1].note.value + SumValues(Tail(coins))

\* prepare_transaction: the owned coins must cover the amount
prepare_transaction(amount, coins) == SumValues(coins) >= amount

\* the broker is parked at an await that returned Pending
Suspended == pc \in {"select", "lock_pending", "get_address", "withdraw", "put_slab"}

\* the channels are polled while the arm that runs apply is still pending
SelectPolledWhilePending == pc \in {"select", "lock_pending"}

\* loop { select! { .. } }: the channels are polled again only when the arm
\* taken before has run to its end
SelectPolled == pc = "select"

\* slab = gateway_slabs_sub.recv() => decode, state_transition, apply
RecvSlab ==
    /\ Running /\ SelectPolled /\ gateway_slabs_sub # <<>>
    /\ gateway_slabs_sub' = recv(gateway_slabs_sub).rest
    /\ LET slab == recv(gateway_slabs_sub).msg
       IN  IF ~DecodeOk(slab)
           THEN /\ task' = "err_decode"
                /\ UNCHANGED <<pc, applying>>
           ELSE IF ~state_transition(slab).ok
           THEN /\ task' = "err_validation"
                /\ UNCHANGED <<pc, applying>>
           ELSE /\ StartApply(state_transition(slab).update)
                /\ UNCHANGED task
    /\ UNCHANGED <<engine, lock, published, deposit_req, deposit_rep,
                   withdraw_req, withdraw_rep, publish_tx_recv, cashier_req,
                   cashier_rsp, put_slabs>>
    /\ UNCHANGED <<wallet, requested>>

\* deposit_addr = deposit_req.recv() => cashier_client.get_address(..).await
RecvDeposit ==
    /\ Running /\ SelectPolled /\ deposit_req # <<>>
    /\ deposit_req' = recv(deposit_req).rest
    /\ pc' = "get_address"
    /\ cashier_req' = recv(deposit_req).msg
    /\ cashier_rsp' = "none"
    /\ UNCHANGED <<engine, lock, task, applying, published, gateway_slabs_sub,
                   deposit_rep, withdraw_req, withdraw_rep, publish_tx_recv, put_slabs>>
    /\ UNCHANGED <<wallet, requested>>

\* withdraw_addr = withdraw_req.recv() => cashier_client.withdraw(..).await
RecvWithdraw ==
    /\ Running /\ SelectPolled /\ withdraw_req # <<>>
    /\ withdraw_req' = recv(withdraw_req).rest
    /\ pc' = "withdraw"
    /\ cashier_req' = recv(withdraw_req).msg
    /\ cashier_rsp' = "none"
    /\ UNCHANGED <<engine, lock, task, applying, published, gateway_slabs_sub,
                   deposit_req, deposit_rep, withdraw_rep, publish_tx_recv, put_slabs>>
    /\ UNCHANGED <<wallet, requested>>

\* the cashier service answers the outstanding call: Ok(Some), Ok(None) or Err
CashierRespond ==
    /\ Running /\ pc \in {"get_address", "withdraw"} /\ cashier_rsp = "none"
    /\ \E r \in {"Some", "None", "error"} : cashier_rsp' = r
    /\ UNCHANGED <<engine, lock, pc, task, applying, published, gateway_slabs_sub,
                   deposit_req, deposit_rep, withdraw_req, withdraw_rep,
                   publish_tx_recv, cashier_req, put_slabs>>
    /\ UNCHANGED <<wallet, requested>>

\* the deposit arm sends its answer on the reply channel of the withdrawals
DepositReplyOnWithdrawRep ==
    /\ Running /\ pc = "get_address" /\ cashier_rsp # "none"
    /\ IF cashier_rsp = "error"
       THEN /\ task' = "err_cashier"
            /\ UNCHANGED <<pc, withdraw_rep, cashier_req, cashier_rsp>>
       ELSE /\ withdraw_rep' = Append(withdraw_rep,
                    IF cashier_rsp = "Some" THEN CashierAddress(cashier_req) ELSE "None")
            /\ pc' = "select"
            /\ cashier_req' = "none"
            /\ cashier_rsp' = "none"
            /\ UNCHANGED task
    /\ UNCHANGED <<engine, lock, applying, published, gateway_slabs_sub,
                   deposit_req, deposit_rep, withdraw_req, publish_tx_recv, put_slabs,
                   wallet, requested>>

\* let btc_public = ...await?; deposit_rep.send(btc_public).await?
DepositReply ==
    /\ Running /\ pc = "get_address" /\ cashier_rsp # "none"
    /\ IF cashier_rsp = "error"
       THEN /\ task' = "err_cashier"
            /\ UNCHANGED <<pc, deposit_rep, cashier_req, cashier_rsp>>
       ELSE /\ deposit_rep' = Append(deposit_rep,
                    IF cashier_rsp = "Some" THEN CashierAddress(cashier_req) ELSE "None")
            /\ pc' = "select"
            /\ cashier_req' = "none"
            /\ cashier_rsp' = "none"
            /\ UNCHANGED task
    /\ UNCHANGED <<engine, lock, applying, published, gateway_slabs_sub,
                   deposit_req, withdraw_req, withdraw_rep, publish_tx_recv, put_slabs>>
    /\ UNCHANGED <<wallet, requested>>

\* let drk_public = ...await?; withdraw_rep.send(drk_public).await?
WithdrawReply ==
    /\ Running /\ pc = "withdraw" /\ cashier_rsp # "none"
    /\ IF cashier_rsp = "error"
       THEN /\ task' = "err_cashier"
            /\ UNCHANGED <<pc, withdraw_rep, cashier_req, cashier_rsp>>
       ELSE /\ withdraw_rep' = Append(withdraw_rep,
                    IF cashier_rsp = "Some" THEN CashierAddress(cashier_req) ELSE "None")
            /\ pc' = "select"
            /\ cashier_req' = "none"
            /\ cashier_rsp' = "none"
            /\ UNCHANGED task
    /\ UNCHANGED <<engine, lock, applying, published, gateway_slabs_sub,
                   deposit_req, deposit_rep, withdraw_req, publish_tx_recv, put_slabs>>
    /\ UNCHANGED <<wallet, requested>>

\* transfer_params = publish_tx_recv.recv() => decode key, own coins, prepare_transaction
RecvTransfer ==
    /\ Running /\ SelectPolled /\ publish_tx_recv # <<>>
    /\ publish_tx_recv' = recv(publish_tx_recv).rest
    /\ \E coins_read \in BOOLEAN :
        LET transfer_params == recv(publish_tx_recv).msg
        IN  IF ~transfer_params.key_ok
            THEN /\ task' = "err_decode"
                 /\ UNCHANGED pc
            ELSE IF ~coins_read
            THEN /\ task' = "err_store"
                 /\ UNCHANGED pc
            ELSE IF ~prepare_transaction(transfer_params.amount, own_coins)
            THEN /\ task' = "err_prepare"
                 /\ UNCHANGED pc
            ELSE /\ pc' = "put_slab"
                 /\ UNCHANGED task
    /\ UNCHANGED <<engine, lock, applying, published, gateway_slabs_sub,
                   deposit_req, deposit_rep, withdraw_req, withdraw_rep,
                   cashier_req, cashier_rsp, put_slabs>>
    /\ UNCHANGED <<wallet, requested>>

\* the submitted transfer is marked spent locally, before it is confirmed
PutSlabSpends ==
    /\ Running /\ pc = "put_slab"
    /\ put_slabs' = put_slabs + 1
    /\ pc' = "select"
    /\ nullifiers' = NullifiersPut(nullifiers, "n1")
    /\ UNCHANGED <<tree, merkle_roots, witnesses, own_coins, lock, task, applying,
                   published, gateway_slabs_sub, deposit_req, deposit_rep,
                   withdraw_req, withdraw_rep, publish_tx_recv, cashier_req,
                   cashier_rsp, wallet, requested>>

\* client.put_slab(slab).await.expect("put slab")
PutSlab ==
    /\ Running /\ pc = "put_slab"
    /\ \E ok \in BOOLEAN :
        IF ok
        THEN /\ put_slabs' = put_slabs + 1
             /\ pc' = "select"
             /\ UNCHANGED task
        ELSE /\ task' = "panic"
             /\ UNCHANGED <<pc, put_slabs>>
    /\ UNCHANGED <<engine, lock, applying, published, gateway_slabs_sub,
                   deposit_req, deposit_rep, withdraw_req, withdraw_rep,
                   publish_tx_recv, cashier_req, cashier_rsp>>
    /\ UNCHANGED <<wallet, requested>>

Broker ==
    \/ RecvSlab \/ RecvDeposit \/ RecvWithdraw \/ RecvTransfer
    \/ DepositReply \/ WithdrawReply \/ PutSlab \/ Apply

---------------------------------------------------------------------------
(* start(): the producers of the four channels and the cancellation.       *)
(* The receiving and sending ends of every channel live as long as the     *)
(* process, so recv and send on them do not fail; events delivered after   *)
(* the broker task has ended are never taken and are left out.             *)

\* the gateway subscriber delivers a slab
PublishSlab ==
    /\ Running /\ published < MaxEvents
    /\ \E slab \in Slabs : gateway_slabs_sub' = Append(gateway_slabs_sub, slab)
    /\ published' = published + 1
    /\ UNCHANGED <<engine, lock, pc, task, applying, deposit_req, deposit_rep,
                   withdraw_req, withdraw_rep, publish_tx_recv, cashier_req,
                   cashier_rsp, put_slabs>>
    /\ UNCHANGED <<wallet, requested>>

\* the adapter asks for a deposit address
RequestDeposit ==
    /\ Running /\ published < MaxEvents
    /\ \E key \in DepositKey :
        /\ deposit_req' = Append(deposit_req, key)
        /\ requested' = [requested EXCEPT !.deposit = Append(@, key)]
    /\ published' = published + 1
    /\ UNCHANGED <<engine, lock, pc, task, applying, gateway_slabs_sub,
                   deposit_rep, withdraw_req, withdraw_rep, publish_tx_recv,
                   cashier_req, cashier_rsp, put_slabs>>
    /\ UNCHANGED wallet

\* the adapter asks for a withdrawal
RequestWithdraw ==
    /\ Running /\ published < MaxEvents
    /\ \E addr \in WithdrawAddr :
        /\ withdraw_req' = Append(withdraw_req, addr)
        /\ requested' = [requested EXCEPT !.withdraw = Append(@, addr)]
    /\ published' = published + 1
    /\ UNCHANGED <<engine, lock, pc, task, applying, gateway_slabs_sub,
                   deposit_req, deposit_rep, withdraw_rep, publish_tx_recv,
                   cashier_req, cashier_rsp, put_slabs>>
    /\ UNCHANGED wallet

\* the adapter asks for a transfer
RequestTransfer ==
    /\ Running /\ published < MaxEvents
    /\ \E p \in TransferParams : publish_tx_recv' = Append(publish_tx_recv, p)
    /\ published' = published + 1
    /\ UNCHANGED <<engine, lock, pc, task, applying, gateway_slabs_sub,
                   deposit_req, deposit_rep, withdraw_req, withdraw_rep,
                   cashier_req, cashier_rsp, put_slabs>>
    /\ UNCHANGED <<wallet, requested>>

\* futures_broker_task.cancel().await: the task is dropped where it is parked
Cancel ==
    /\ Running /\ Suspended
    /\ task' = "cancelled"
    /\ UNCHANGED <<engine, lock, pc, applying, published, channels>>
    /\ UNCHANGED <<wallet, requested>>

Next ==
    \/ Broker \/ CashierRespond
    \/ PublishSlab \/ RequestDeposit \/ RequestWithdraw \/ RequestTransfer
    \/ ReaderLock \/ ReaderUnlock \/ Cancel

Spec == Init /\ [][Next]_vars

---------------------------------------------------------------------------
(* Properties *)

\* the positions of the broker that lie inside State::apply
ApplyPcs == {"nullifiers", "append", "root", "lock", "lock_pending", "locked", "decrypt"}

\* no apply call is under way or was abandoned part-way
Completed == pc \notin ApplyPcs

\* the root the tree had after each of its appends
PrefixRoots(t) == {TreeRoot(SubSeq(t, 1, k)) : k \in 1..Len(t)}

\* the coins of the current update that are in the tree
CoinsAppended ==
    IF pc \in {"root", "lock", "lock_pending", "locked", "decrypt"} THEN ci ELSE ci - 1

\* the slab is refused: its payload does not decode or validation fails
Rejected(slab) == ~DecodeOk(slab) \/ ~state_transition(slab).ok

\* C1: an apply call whose update holds a nullifier that is already in the
\* Nullifier Set is rejected before any mutation: no step of it changes the
\* tree, the Root History or the witnesses.
C1_DoubleSpendRejected ==
    [][double_spend' =>
        /\ tree' = tree
        /\ merkle_roots' = merkle_roots
        /\ witnesses' = witnesses]_vars

\* C2: once the apply calls made so far are complete, every owned-coin witness
\* is bound to a leaf of the tree and its authentication path derives the
\* tree's current root.
C2_AppendOrderInvariant ==
    Completed =>
        \A i \in 1..Len(witnesses) :
            /\ WitnessPosition(witnesses[i]) < Len(tree)
            /\ WitnessRoot(witnesses[i]) = TreeRoot(tree)

\* a witness at the last leaf (no append since) beside one advanced twice
C2_Witness ==
    /\ Completed /\ Running
    /\ \E i \in 1..Len(witnesses) : WitnessPosition(witnesses[i]) = Len(tree) - 1
    /\ \E i \in 1..Len(witnesses) : Len(witnesses[i].filled) >= 2

\* C3: after completed apply calls the Root History is exactly the set of
\* roots the tree had after each coin append, one entry per append, and no
\* step removes an entry.
C3_RootHistoryMonotonic ==
    /\ [](Completed =>
            /\ merkle_roots = PrefixRoots(tree)
            /\ Cardinality(merkle_roots) = Len(tree))
    /\ [][merkle_roots \subseteq merkle_roots']_vars

\* two updates applied, one of them with several coins
C3_Witness ==
    /\ Completed /\ Running /\ published >= 2
    /\ Len(tree) >= 4 /\ Cardinality(merkle_roots) >= 4

\* C4: after one update with one coin and no nullifiers applied to a fresh
\* State, the Root History holds two entries, the empty tree's root among them.
C4_EmptyRootRecorded ==
    (/\ Completed /\ Running /\ published = 1
     /\ Len(tree) = 1 /\ update.nullifiers = <<>>)
        => /\ Cardinality(merkle_roots) = 2
           /\ is_valid_merkle(EmptyRoot)

\* C5: a nullifier that exists still exists after every step of the system.
C5_NullifierPermanence ==
    [][\A n \in Nullifier : nullifier_exists(n) => nullifier_exists(n)']_vars

\* n1 was inserted by one apply and is still present after a later apply and
\* a deposit reply
C5_Witness ==
    /\ Completed /\ nullifiers = {"n1", "n2"}
    /\ update.nullifiers = <<"n2">>
    /\ deposit_rep # <<>>

\* the roots of the empty tree and of the trees of one and two leaves
SmallRoots ==
    {EmptyRoot} \cup {TreeRoot(<<c>>) : c \in Coin}
        \cup {TreeRoot(<<c, d>>) : c \in Coin, d \in Coin}

\* roots the tree never had after an append, among the recorded and the small ones
NeverRoots == (merkle_roots \cup SmallRoots) \ PrefixRoots(tree)

\* C6: a root accepted by is_valid_merkle stays accepted after every step,
\* every root the tree had after an append is accepted once the apply call is
\* complete, and is_valid_merkle accepts no root the tree never had after an
\* append.
C6_PastRootsAccepted ==
    /\ [][\A r \in merkle_roots : is_valid_merkle(r) => is_valid_merkle(r)']_vars
    /\ [](Completed => \A r \in PrefixRoots(tree) : is_valid_merkle(r))
    /\ [](\A r \in NeverRoots : ~is_valid_merkle(r))

\* the root after the first append is accepted three appends later
C6_Witness ==
    /\ Completed /\ Len(tree) >= 4
    /\ TreeRoot(SubSeq(tree, 1, 1)) # TreeRoot(tree)
    /\ is_valid_merkle(TreeRoot(SubSeq(tree, 1, 1)))

\* C7: in every state, also one where apply stopped part-way, a coin of the
\* current update is in the tree only if every nullifier of that update is in
\* the Nullifier Set, and no coin is appended before that.
C7_NullifiersBeforeOutputs ==
    /\ [](CoinsAppended > 0 =>
            \A n \in Range(update.nullifiers) : nullifier_exists(n))
    /\ [][tree' # tree =>
            \A n \in Range(update.nullifiers) : nullifier_exists(n)]_vars

\* apply stopped after appending a coin of an update with two nullifiers
C7_Witness ==
    /\ task \in {"err_store", "cancelled"}
    /\ pc \in ApplyPcs
    /\ CoinsAppended > 0
    /\ Len(update.nullifiers) = 2

\* C8: a cancelled broker stopped outside apply: every leaf's root is
\* recorded and every witness derives the tree's root.
C8_CancelNeverInsideApply ==
    task = "cancelled" =>
        /\ pc \notin ApplyPcs
        /\ merkle_roots = PrefixRoots(tree)
        /\ \A i \in 1..Len(witnesses) : WitnessRoot(witnesses[i]) = TreeRoot(tree)

\* C9: when the broker takes a slab that is refused, the Program State is
\* unchanged and the broker is back at its select, still running.
C9_RejectedTxBrokerContinues ==
    [][(RecvSlab /\ Rejected(Head(gateway_slabs_sub))) =>
        /\ engine' = engine
        /\ task' = "running"
        /\ pc' = "select"]_vars

\* C10: when the cashier call of a deposit or withdraw request failed, the
\* broker sends None on the matching reply channel and goes back to its select.
C10_CashierFailureReported ==
    [][((DepositReply \/ WithdrawReply) /\ cashier_rsp = "error") =>
        /\ task' = "running"
        /\ pc' = "select"
        /\ pc = "get_address" => deposit_rep' = Append(deposit_rep, "None")
        /\ pc = "withdraw" => withdraw_rep' = Append(withdraw_rep, "None")]_vars

\* C11: when the handling of a transfer request fails (at the key decoding,
\* the read of the owned coins, prepare_transaction or the submission), the
\* Program State is unchanged and the broker is back at its select, running.
C11_TransferFailureNotFatal ==
    [][((RecvTransfer /\ pc' # "put_slab") \/ (PutSlab /\ put_slabs' = put_slabs)) =>
        /\ engine' = engine
        /\ task' = "running"
        /\ pc' = "select"]_vars

\* an event is ready on one of the four channels
EventReady ==
    \/ gateway_slabs_sub # <<>> \/ deposit_req # <<>>
    \/ withdraw_req # <<>> \/ publish_tx_recv # <<>>

\* the broker made a deposit or withdraw call the cashier has not answered
CashierOutstanding ==
    Running /\ pc \in {"get_address", "withdraw"} /\ cashier_rsp = "none"

\* C12: while the cashier has not answered a deposit or withdraw call, the
\* broker can take an event that is ready on one of its channels.
C12_OutstandingRequestDoesNotBlock ==
    (CashierOutstanding /\ EventReady) =>
        ENABLED (RecvSlab \/ RecvDeposit \/ RecvWithdraw \/ RecvTransfer)

\* the broker task was ended by its owner or by a failure of a store or of
\* the tree, after which the process does not go on
StoppedForGood == task \in {"cancelled", "err_store", "panic"}

\* C13: an event queued on any of the four channels is eventually taken: as
\* long as the broker was not cancelled (and no store failed), it is still
\* running while an event waits on a channel, for an event that is queued when
\* the broker task has ended is never taken.
C13_NoStarvation ==
    (EventReady /\ ~StoppedForGood) => Running

\* the channel changed by an append at its end or by the removal of its head
FifoStep(before, after) ==
    before # after =>
        \/ before # <<>> /\ after = Tail(before)
        \/ Len(after) = Len(before) + 1 /\ SubSeq(after, 1, Len(before)) = before

C15_BrokerSoleWriter ==
    [][/\ <<tree, merkle_roots, nullifiers>>' # <<tree, merkle_roots, nullifiers>> =>
            /\ pc \in ApplyPcs
            /\ PutNullifier \/ AppendCoin \/ PutRoot
       /\ <<witnesses, own_coins>>' # <<witnesses, own_coins>> =>
            /\ pc \in ApplyPcs
            /\ LockWitnesses \/ DecryptCoin
       /\ (pc \notin ApplyPcs /\ pc' \in ApplyPcs) => RecvSlab
       /\ (\/ RecvDeposit \/ DepositReply \/ RecvWithdraw \/ WithdrawReply
           \/ RecvTransfer \/ PutSlab \/ CashierRespond) =>
            /\ <<tree, merkle_roots, nullifiers>>' = <<tree, merkle_roots, nullifiers>>
            /\ witnesses' = witnesses]_vars

\* a transfer was submitted and a deposit answered on a State that holds coins
C15_Witness ==
    /\ Len(tree) > 0 /\ Len(witnesses) > 0 /\ nullifiers # {}
    /\ put_slabs > 0
    /\ deposit_rep # <<>>

\* every nullifier and every pair of the update passed to apply was processed
FullyApplied ==
    /\ ni = Len(update.nullifiers) + 1
    /\ ci = Len(Pairs(update)) + 1

\* C16: the broker takes a transfer request only between apply calls, when
\* the last update is applied in full and every owned coin has a witness that
\* derives the tree's root; the transfer goes on to the submission only if the
\* coins owned at that moment cover the amount, and fails if they do not, as
\* when a slab that would bring the missing coin is still queued.
C16_TransferSeesCompletedApplies ==
    [][RecvTransfer =>
        /\ pc = "select" /\ FullyApplied
        /\ Len(witnesses) = Len(own_coins)
        /\ \A i \in 1..Len(witnesses) :
            /\ WitnessRoot(witnesses[i]) = TreeRoot(tree)
            /\ tree[WitnessPosition(witnesses[i]) + 1] = FromCoin(own_coins[i].coin)
        /\ pc' = "put_slab" => SumValues(own_coins) >= Head(publish_tx_recv).amount
        /\ SumValues(own_coins) < Head(publish_tx_recv).amount =>
            /\ task' \in {"err_decode", "err_store", "err_prepare"}
            /\ put_slabs' = put_slabs]_vars

\* a transfer of 2 was handled after the first apply, which brought one coin
\* of value 1, while the slab bringing the second coin was still queued
C16_Witness ==
    /\ task = "err_prepare"
    /\ Len(tree) = 1 /\ SumValues(own_coins) = 1
    /\ Len(gateway_slabs_sub) = 1
    /\ ~Rejected(gateway_slabs_sub[1])
    /\ "c1" \in Range(gateway_slabs_sub[1].update.coins)

\* C17: is_valid_cashier_public_key(key) returns true exactly when key is
\* among the cashier keys registered in the wallet store.
C17_CashierKeyRegistered ==
    (call.fn = "is_valid_cashier_public_key" /\ call.outcome = "returned") =>
        (call.result <=> call.arg \in cashier)

\* the held secrets that decrypt the note, by their place in the store
Decrypting(ciphertext) ==
    {i \in 1..Len(secrets) : DecryptNote(ciphertext, secrets[i]).ok}

\* C18: when the wallet's keys were read, try_decrypt_note returns the note
\* and the secret of the first held secret that decrypts it, and a negative
\* result only when no held secret decrypts it.
C18_FirstMatchWins ==
    (call.fn = "try_decrypt_note" /\ call.private.ok) =>
        IF Decrypting(call.arg) = {}
        THEN ~call.result.some
        ELSE LET first == CHOOSE i \in Decrypting(call.arg) :
                            \A j \in Decrypting(call.arg) : i <= j
             IN  call.result = [some |-> TRUE,
                                note |-> DecryptNote(call.arg, secrets[first]).note,
                                secret |-> secrets[first]]

\* the leaves the witnesses have been advanced by: all of the tree, but for
\* the last leaf while its coin iteration has not reached the witnesses yet
LeavesAdvanced ==
    IF pc \in {"root", "lock", "lock_pending", "locked"} THEN Len(tree) - 1 ELSE Len(tree)

\* C20: a witness created at tree size S holds the S leaves the tree had then,
\* its own leaf last, and has received the leaves appended after S, once each
\* and in append order, up to the coin iteration under way; a witness is
\* created in the iteration of its coin, from the tree as that coin's append
\* left it, with no append received.
C20_WitnessUpdateCount ==
    /\ [](\A i \in 1..Len(witnesses) :
            LET w == witnesses[i]
                S == Len(w.tree)
            IN  /\ S >= 1 /\ S <= Len(tree)
                /\ w.tree = SubSeq(tree, 1, S)
                /\ w.filled = SubSeq(tree, S + 1, LeavesAdvanced))
    /\ [][Len(witnesses') > Len(witnesses) =>
            /\ pc = "decrypt"
            /\ witnesses' = Append(witnesses, [tree |-> tree, filled |-> <<>>])
            /\ tree[Len(tree)] = FromCoin(Pairs(update)[ci].coin)]_vars

\* one update of three coins: the witness of its first coin was advanced by
\* the second and the third, the witness of its third coin by none
C20_Witness ==
    /\ Completed /\ Running /\ published = 1
    /\ Len(Pairs(update)) = 3
    /\ Len(witnesses) = 2
    /\ Len(witnesses[1].filled) = 2
    /\ witnesses[2].filled = <<>>


---------------------------------------------------------------------------
(* C21 *)

\* the leaves of the first k coins listed in update u, in the update's order
LeavesOf(u, k) == [i \in 1..k |-> FromCoin(u.coins[i])]

\* C21: the tree is append-only and order-preserving: at every point of an
\* apply call the tree is the tree the call found followed by one leaf per
\* coin of the update processed so far, in the update's order, so that a
\* successful call grows the tree by the number of coins of its update; and
\* across every step the leaves before are a prefix of the leaves after.
C21_TreeAppendOnly ==
    /\ [](tree = tree_at_call \o LeavesOf(update, CoinsAppended))
    /\ []((Completed /\ Running) =>
            Len(tree) = Len(tree_at_call) + Len(update.coins))
    /\ [][/\ Len(tree') >= Len(tree)
          /\ SubSeq(tree', 1, Len(tree)) = tree]_vars

\* an apply of three coins returned on a tree that held leaves before
C21_Witness ==
    /\ Completed /\ Running
    /\ tree_at_call # <<>>
    /\ update.coins = <<"c1", "c2", "c1">>
    /\ Len(tree) = Len(tree_at_call) + 3


---------------------------------------------------------------------------
(* C22 *)

\* the coins of the current update the witnesses have been advanced for
CoinsAdvanced == IF pc = "decrypt" THEN ci ELSE ci - 1

\* C22: the loop of apply over the coins and the witnesses is a critical
\* section that does not suspend: apply is never parked inside it, and a
\* task that holds the witness lock during an apply call sees the witnesses
\* advanced for none of the coins of the update or for all of them.
C22_ApplyLoopNeverYields ==
    /\ pc # "lock_pending"
    /\ (lock = "reader" /\ pc \in ApplyPcs) =>
            CoinsAdvanced \in {0, Len(Pairs(update))}


---------------------------------------------------------------------------
(* C23 *)

\* C23: the broker holds the witness lock only while it advances the witnesses
\* inside apply: it does not hold it when it is parked at a channel receive,
\* at a cashier or gateway request or at the lock itself, nor when it runs the
\* note decryption or any other step; it takes the lock only when no reader
\* holds it, and no reader takes it while the broker holds it.
C23_WitnessLockDiscipline ==
    /\ [](lock = "broker" <=> pc = "locked")
    /\ []((Suspended \/ pc = "decrypt") => lock # "broker")
    /\ [][/\ (lock' = "broker" /\ lock # "broker") => (AcquireLock /\ lock = "free")
          /\ (lock' = "reader" /\ lock # "reader") => (ReaderLock /\ lock = "free")
          /\ (lock = "broker" /\ lock' # "broker") =>
                (LockWitnesses /\ lock' = "free" /\ pc' = "decrypt")]_vars

\* the broker dropped the lock after advancing a witness, then decrypted a
\* note, and a reader holds the lock while the broker is parked at the select
C23_Witness ==
    /\ Running /\ pc = "select" /\ lock = "reader"
    /\ \E i \in 1..Len(witnesses) : witnesses[i].filled # <<>>


---------------------------------------------------------------------------
(* C24 *)

\* the step of apply made the mutation it stands at
MutationMade ==
    LET node == FromCoin(update.coins[ci])
    IN  /\ pc = "nullifiers" =>
            (update.nullifiers[ni] \in nullifiers' /\ ni' = ni + 1)
        /\ pc = "append" => tree' = Append(tree, node)
        /\ pc = "root" => TreeRoot(tree) \in merkle_roots'
        /\ pc = "locked" =>
            /\ Len(witnesses') = Len(witnesses)
            /\ \A i \in 1..Len(witnesses) :
                witnesses'[i].filled = Append(witnesses[i].filled, node)

\* C24: a failed mutation inside apply is fatal: a step of apply at a
\* nullifier insert, a tree append, a root record or a witness advance either
\* makes the mutation or ends the broker task with the failure, and once the
\* task has ended no event is taken and the Program State, the position of
\* the broker and the channels never change again.
C24_MutationFailureFatal ==
    /\ [][(Apply /\ pc \in {"nullifiers", "append", "root", "locked"}) =>
            \/ MutationMade /\ task' = "running"
            \/ /\ task' \in {"err_store", "panic"}
               /\ engine' = engine /\ pc' = pc]_vars
    /\ [][task # "running" =>
            /\ task' = task /\ pc' = pc
            /\ engine' = engine /\ applying' = applying
            /\ channels' = channels]_vars

\* a root put failed inside apply while events wait on the channels
C24_Witness ==
    /\ task = "err_store" /\ pc = "root"
    /\ gateway_slabs_sub # <<>> /\ deposit_req # <<>>
    /\ TreeRoot(tree) \notin merkle_roots


---------------------------------------------------------------------------
(* C25 *)

\* the store a predicate reads
StoreOf(fn) ==
    IF fn = "is_valid_merkle" THEN merkle_roots
    ELSE IF fn = "nullifier_exists" THEN nullifiers
    ELSE cashier

\* C25: a predicate never answers false for 'unknown': when the store cannot
\* be read, is_valid_merkle, nullifier_exists and is_valid_cashier_public_key
\* return no boolean but fail fatally, and whenever one of them returns false
\* the store was read and the value asked for is not in it.
C25_NoFalseForUnknown ==
    call.fn \in {"is_valid_merkle", "nullifier_exists", "is_valid_cashier_public_key"} =>
        /\ ~call.opened => call.outcome = "panic"
        /\ call.outcome = "returned" => call.opened
        /\ (call.outcome = "returned" /\ ~call.result) =>
                call.arg \notin StoreOf(call.fn)

\* the store could not be read when a stored nullifier was asked for
C25_Witness ==
    /\ call.fn = "nullifier_exists" /\ ~call.opened
    /\ call.outcome = "panic"
    /\ call.arg \in nullifiers


---------------------------------------------------------------------------
(* C26 *)

\* no secret key of the wallet decrypts the note
Undecryptable(ciphertext) ==
    \A i \in 1..Len(secrets) : ~DecryptNote(ciphertext, secrets[i]).ok

\* C26: a note the wallet cannot decrypt is a negative result and no error:
\* when apply comes to the decryption of such a note the coin is the last leaf
\* of the tree, the tree's root is recorded and every existing witness has been
\* advanced by the coin; the step registers no owned-coin record and no
\* witness, goes on to the next coin of the update, and after the last coin
\* apply returns with the broker running.
C26_DecryptFailureNotError ==
    [][(DecryptCoin /\ Undecryptable(update.enc_notes[ci])) =>
        LET node == FromCoin(update.coins[ci])
        IN  /\ tree # <<>> /\ tree[Len(tree)] = node
            /\ TreeRoot(tree) \in merkle_roots
            /\ \A i \in 1..Len(witnesses) :
                /\ witnesses[i].filled # <<>>
                /\ witnesses[i].filled[Len(witnesses[i].filled)] = node
                /\ Len(witnesses[i].tree) + Len(witnesses[i].filled) = Len(tree)
            /\ own_coins' = own_coins /\ witnesses' = witnesses
            /\ task' = "running"
            /\ ci' = ci + 1
            /\ pc' = IF ci < Len(update.coins) THEN "append" ELSE "select"]_vars

\* an apply of (c2, c1) returned: c2 is not the wallet's, it advanced the
\* witness of an earlier coin and left no record, and c1 after it was registered
C26_Witness ==
    /\ Completed /\ Running
    /\ update.coins = <<"c2", "c1">>
    /\ tree = <<FromCoin("c1"), FromCoin("c2"), FromCoin("c1")>>
    /\ Len(own_coins) = 2
    /\ witnesses[1].filled = <<FromCoin("c2"), FromCoin("c1")>>


---------------------------------------------------------------------------
(* C27 *)

\* the owned-coin record apply makes of the coin at index i of update u
\* when the note decrypts under secret
RecordOf(u, i, secret) ==
    [coin |-> u.coins[i], note |-> DecryptNote(u.enc_notes[i], secret).note,
     secret |-> secret]

\* C27: apply registers an owned-coin record for a coin exactly when the
\* decryption of the coin's note succeeds: the step that decrypts either finds
\* a key that decrypts the note and appends one record of the coin, the note
\* and the key with a witness made from the tree (or the store refuses the
\* record and the broker ends), or it registers nothing; the records stand at
\* distinct leaves, each for a coin whose note its secret decrypts; and no
\* step of the broker changes the records in another way, so they only grow.
C27_OwnedCoinIffDecrypted ==
    /\ [](/\ Len(own_coins) = Len(witnesses)
          /\ \A i \in 1..Len(own_coins) :
                /\ WitnessPosition(witnesses[i]) < Len(tree)
                /\ tree[WitnessPosition(witnesses[i]) + 1] = FromCoin(own_coins[i].coin)
                /\ DecryptNote(NoteOf(own_coins[i].coin), own_coins[i].secret).ok
                /\ own_coins[i].note = NoteOf(own_coins[i].coin).note
          /\ \A i, j \in 1..Len(own_coins) :
                i < j => WitnessPosition(witnesses[i]) < WitnessPosition(witnesses[j]))
    /\ [][own_coins' # own_coins => DecryptCoin]_vars
    /\ [][DecryptCoin =>
            \E private \in get_private(secrets) :
                IF private.ok /\ DecryptNote(update.enc_notes[ci], private.secret).ok
                THEN \/ /\ own_coins' = Append(own_coins, RecordOf(update, ci, private.secret))
                        /\ witnesses' = Append(witnesses, WitnessFromTree(tree))
                        /\ ci' = ci + 1
                     \/ /\ task' = "err_store"
                        /\ own_coins' = own_coins /\ witnesses' = witnesses
                ELSE /\ own_coins' = own_coins /\ witnesses' = witnesses
                     /\ ci' = ci + 1]_vars

\* two coins of the wallet are registered and a third coin, not the wallet's,
\* is in the tree without a record, and the broker has served a deposit since
C27_Witness ==
    /\ Completed /\ Running
    /\ Len(own_coins) = 2 /\ Len(tree) = 3
    /\ own_coins[1].coin = "c1" /\ own_coins[2].coin = "c1"
    /\ deposit_rep # <<>>


---------------------------------------------------------------------------
(* C28 *)

\* a step of the broker that takes an event from one of the four channels
TakesEvent == RecvSlab \/ RecvDeposit \/ RecvWithdraw \/ RecvTransfer

\* C28: validation and apply of a confirmed transaction are one serialized
\* step: the broker takes an event only when no apply is under way and the
\* last update is applied in full; the update of an accepted slab is the one
\* the validator returned on the Program State of that moment (none of its
\* nullifiers is stored) and its apply starts in the same step, on that state;
\* until that apply ends the update stays the same, no event is taken and the
\* Program State changes by the steps of that apply only; and when it has
\* ended every nullifier of the update is stored and every coin is in the
\* tree once, after the leaves the validation saw.
C28_ValidateThenApplySerialized ==
    /\ [][TakesEvent => (pc = "select" /\ FullyApplied)]_vars
    /\ [][(RecvSlab /\ pc' \in ApplyPcs) =>
            /\ update' = Head(gateway_slabs_sub).update
            /\ Head(gateway_slabs_sub).valid
            /\ \A n \in Range(update'.nullifiers) : n \notin nullifiers
            /\ engine' = engine
            /\ tree_at_call' = tree
            /\ ni' = 1 /\ ci' = 1]_vars
    /\ [][(pc \in ApplyPcs) =>
            /\ ~TakesEvent
            /\ update' = update /\ tree_at_call' = tree_at_call
            /\ (engine' # engine => Apply)
            /\ (pc' # pc => Apply)]_vars
    /\ []((Completed /\ Running /\ FullyApplied) =>
            /\ Range(update.nullifiers) \subseteq nullifiers
            /\ tree = tree_at_call \o [i \in 1..Len(update.coins) |-> FromCoin(update.coins[i])])

\* the apply of a second slab is parked at the witness lock while a deposit
\* request waits on its channel
C28_Witness ==
    /\ Running /\ pc = "lock_pending"
    /\ tree_at_call # <<>>
    /\ deposit_req # <<>>


---------------------------------------------------------------------------
(* C29 *)

\* the slab carries a nullifier that is in the Nullifier Set
Respends(slab) == \E n \in Range(slab.update.nullifiers) : n \in nullifiers

\* C29: with a validator that refuses a transaction one of whose nullifiers is
\* stored, no nullifier is inserted by two applied updates: a step of apply
\* that inserts a nullifier finds it absent from the Nullifier Set; a slab
\* that carries a nullifier an applied update has inserted is not applied: the
\* step that takes it starts no apply and leaves the Program State as it is,
\* and so does every step after it, so of two transactions with the same
\* nullifier only the coins of the first delivered are appended.
C29_NoDoubleSpendEndToEnd ==
    /\ [][(PutNullifier /\ ni' = ni + 1) => update.nullifiers[ni] \notin nullifiers]_vars
    /\ [][(RecvSlab /\ Respends(Head(gateway_slabs_sub))) =>
            /\ pc' \notin ApplyPcs
            /\ engine' = engine
            /\ applying' = applying]_vars
    /\ [][task = "err_validation" => engine' = engine]_vars

\* the first of two transactions with the same nullifier is applied, with its
\* coins in the tree, and the second, whose proofs verify, is delivered
C29_Witness ==
    /\ Running /\ pc = "select" /\ FullyApplied
    /\ tree # <<>>
    /\ gateway_slabs_sub # <<>>
    /\ Head(gateway_slabs_sub).decodes /\ Head(gateway_slabs_sub).valid
    /\ \E n \in Range(Head(gateway_slabs_sub).update.nullifiers) :
            n \in Range(update.nullifiers) /\ n \in nullifiers


---------------------------------------------------------------------------
(* C30 *)

\* the request of the given arm the broker has taken and not answered yet
InFlight(arm) == IF pc = arm THEN <<cashier_req>> ELSE <<>>

\* the replies on a channel answer, one for one and in order, the first of the
\* requests delivered to the arm; the request in flight and the requests still
\* queued are the rest of them
Paired(asked, arm, queue, replies) ==
    /\ Len(asked) = Len(replies) + Len(InFlight(arm)) + Len(queue)
    /\ SubSeq(asked, Len(replies) + 1, Len(asked)) = InFlight(arm) \o queue
    /\ \A i \in 1..Len(replies) : replies[i] \in {CashierAddress(asked[i]), "None"}

\* C30: every deposit request handled to completion has exactly one message on
\* the deposit reply channel and none on the withdraw reply channel, and the
\* same holds of withdraw requests the other way round; on each channel the
\* replies are in the order of their requests.
C30_RequestReplyPairing ==
    /\ [](/\ Paired(requested.deposit, "get_address", deposit_req, deposit_rep)
          /\ Paired(requested.withdraw, "withdraw", withdraw_req, withdraw_rep))
    /\ [][/\ (DepositReply /\ pc' = "select") =>
                /\ Len(deposit_rep') = Len(deposit_rep) + 1
                /\ withdraw_rep' = withdraw_rep
          /\ (WithdrawReply /\ pc' = "select") =>
                /\ Len(withdraw_rep') = Len(withdraw_rep) + 1
                /\ deposit_rep' = deposit_rep]_vars

\* two deposit requests for different keys and a withdraw request between or
\* around them were answered
C30_Witness ==
    /\ Len(deposit_rep) = 2 /\ Len(withdraw_rep) = 1
    /\ requested.deposit[1] # requested.deposit[2]
    /\ deposit_rep[1] = CashierAddress(requested.deposit[1])
    /\ deposit_rep[2] = CashierAddress(requested.deposit[2])
    /\ withdraw_rep[1] = CashierAddress(requested.withdraw[1])


---------------------------------------------------------------------------
(* C31 *)

\* C31: the Program State a start creates on the database of an earlier run
\* satisfies the engine's invariants: the Root History is exactly the set of
\* roots the in-memory tree has had, and every persisted owned-coin witness
\* derives the tree's current root.
C31_ConsistentAfterRestart ==
    [][Restart =>
        /\ merkle_roots' = PrefixRoots(tree')
        /\ \A i \in 1..Len(witnesses') :
                WitnessRoot(witnesses'[i]) = TreeRoot(tree')]_vars

=============================================================================
